---- MODULE Spec2Model ----
(***************************************************************************)
(* The article hierarchy engine of the content-management application:     *)
(* the root-tree builder of ArticleList.fetchArticles, the categorized     *)
(* forest of articleAPI.getCategorizedHierarchy / buildHierarchy, and the  *)
(* ArticleList handlers that refetch and rebuild both after a mutation.    *)
(***************************************************************************)
EXTENDS Integers, Sequences, FiniteSets, TLC

\* ------------------------------------------------------------------------
\* Bounds
\* ------------------------------------------------------------------------
\* Number of distinct article ids (flat lists hold at most this many records).
NumArticles == 3
\* How many times the root tree is rebuilt from one flat list in SpecBuild.
MaxBuilds == 2
\* Number of rows the articles table holds, at most (Spec, SpecStore).
NumRows == 2
\* Number of ArticleList handlers that may be awaiting a response at once.
MaxInFlight == 1
\* Number of handlers that may be awaiting a response at once in SpecRace.
MaxOverlap == 2
\* The latest creation time a row of the table gets in SpecStore.
MaxCreatedAt == 3
\* Number of records of the lists whose titles, contents, categories and
\* statuses all vary (SpecTable).
NumListed == 2
\* Number of records of the longest list that is paginated (SpecTable).
MaxRoots == 11

\* ------------------------------------------------------------------------
\* State
\* ------------------------------------------------------------------------
VARIABLES
    flat,                 \* the flat list a builder is applied to (SpecBuild)
    rootBuilds,           \* how often the root tree was built from flat
    forestBuilt,          \* whether the forest was built from flat
    categorized,          \* getCategorizedHierarchy's buckets before nesting
    articles,             \* ArticleList.articles: root list + object graph
    categories,           \* ArticleList.categories
    categorizedArticles,  \* ArticleList.categorizedArticles
    viewMode,             \* ArticleList.viewMode
    loading,              \* ArticleList.loading
    error,                \* ArticleList.error
    db,                   \* the articles table of the persistence service
    handlers,             \* the async handlers of ArticleList that are mid-await
    orphaned,             \* history: ids that had a since-deleted article as ancestor
    refetched,            \* history: the last delete completed both refetches
    expandedNodes,        \* ArticleList.expandedNodes
    lastOp,               \* history: expandAll or collapseAll, if the last step ran it
    searchQuery,          \* ArticleList.searchQuery
    selectedCategory,     \* ArticleList.selectedCategory
    statusFilter,         \* ArticleList.statusFilter
    currentPage,          \* ArticleList.currentPage
    itemsPerPage          \* ArticleList.itemsPerPage

buildVars == <<flat, rootBuilds, forestBuilt, categorized>>

derivedVars == <<articles, categories, categorizedArticles>>

uiVars == <<viewMode, loading, error, db, handlers, orphaned, refetched>>

expansionVars == <<expandedNodes, lastOp>>

tableVars == <<searchQuery, selectedCategory, statusFilter, currentPage, itemsPerPage>>

vars == <<buildVars, derivedVars, uiVars, expansionVars, tableVars>>

NoTree == [rootArticles |-> <<>>, articleMap |-> <<>>]

\* error === null
NoError == "null"

\* ------------------------------------------------------------------------
\* Article records
\* ------------------------------------------------------------------------
\* parentId of an article without a parent (SQL NULL, JavaScript null).
NULL == 0

\* parentId of a record that has no such field (parentId?: string left out).
UNDEFINED == -1

Ids == 1..NumArticles

ParentIds == {NULL, UNDEFINED} \cup Ids

\* Free-text labels; "" stands for an absent or empty category.
Categories == {"", "News", "Uncategorized"}

\* JavaScript truthiness of a parentId value (null and undefined are falsy,
\* an id is not).
TruthyId(v) == v \notin {NULL, UNDEFINED}

\* JavaScript truthiness of a category value (the empty string is falsy).
TruthyText(v) == v # ""

Article(id, parentId, category, createdAt) ==
    [id |-> id, parentId |-> parentId, category |-> category, createdAt |-> createdAt]

\* ------------------------------------------------------------------------
\* Sequence helpers
\* ------------------------------------------------------------------------
Range(s) == {s[i] : i \in DOMAIN s}

Count(s, x) == Cardinality({i \in DOMAIN s : s[i] = x})

\* ------------------------------------------------------------------------
\* Root tree: ArticleList.fetchArticles
\* ------------------------------------------------------------------------
\* First pass: articleMap.set(article.id, { ...article, children: [] }).
\* A later record with the same id replaces the earlier entry.
FirstPass(fetchedArticles) ==
    [id \in {fetchedArticles[i].id : i \in DOMAIN fetchedArticles} |->
        LET last == CHOOSE i \in DOMAIN fetchedArticles :
                        /\ fetchedArticles[i].id = id
                        /\ \A j \in DOMAIN fetchedArticles :
                               fetchedArticles[j].id = id => j <= i
            a == fetchedArticles[last]
        IN  [f \in DOMAIN a \cup {"children"} |-> IF f = "children" THEN <<>> ELSE a[f]]]

\* The branch of the second pass: a truthy parentId that resolves in the map.
HasValidParent(article, articleMap) ==
    TruthyId(article.parentId) /\ article.parentId \in DOMAIN articleMap

\* Faulty variant: the child is pushed to its parent and to the root list too.
PlaceArticleAlsoRoot(st, article) ==
    IF HasValidParent(article, st.articleMap)
    THEN [st EXCEPT !.articleMap[article.parentId].children = Append(@, article.id),
                    !.rootArticles = Append(@, article.id)]
    ELSE [st EXCEPT !.rootArticles = Append(@, article.id)]

\* Faulty variant: only records without parentId become roots; a record whose
\* parentId does not resolve is placed nowhere.
PlaceArticleNoFallback(st, article) ==
    IF HasValidParent(article, st.articleMap)
    THEN [st EXCEPT !.articleMap[article.parentId].children = Append(@, article.id)]
    ELSE IF TruthyId(article.parentId)
         THEN st
         ELSE [st EXCEPT !.rootArticles = Append(@, article.id)]

\* Faulty variant: unshift instead of push, which reverses the enumeration order.
PlaceArticleUnshift(st, article) ==
    IF HasValidParent(article, st.articleMap)
    THEN [st EXCEPT !.articleMap[article.parentId].children = <<article.id>> \o @]
    ELSE [st EXCEPT !.rootArticles = <<article.id>> \o @]

\* parent.children.push(child) or rootArticles.push(rootArticle).
\* Nodes are referenced by their key in articleMap.
PlaceArticle(st, article) ==
    IF HasValidParent(article, st.articleMap)
    THEN [st EXCEPT !.articleMap[article.parentId].children = Append(@, article.id)]
    ELSE [st EXCEPT !.rootArticles = Append(@, article.id)]

\* Second pass: fetchedArticles.forEach, in enumeration order.
RECURSIVE SecondPass(_, _, _)
SecondPass(fetchedArticles, i, st) ==
    IF i > Len(fetchedArticles) THEN st
    ELSE SecondPass(fetchedArticles, i + 1, PlaceArticle(st, fetchedArticles[i]))

\* Faulty variant: the root list is kept across fetches and patched, instead of
\* being rebuilt from an empty local array.
BuildRootTreePatching(fetchedArticles) ==
    SecondPass(fetchedArticles, 1,
               [rootArticles |-> articles.rootArticles,
                articleMap |-> FirstPass(fetchedArticles)])

\* The value handed to setArticles: the root list and the object graph it
\* references (articleMap), children being references to nodes of the map.
BuildRootTree(fetchedArticles) ==
    SecondPass(fetchedArticles, 1,
               [rootArticles |-> <<>>, articleMap |-> FirstPass(fetchedArticles)])

\* [...new Set(fetchedArticles.map(a => a.category).filter(Boolean))]
RECURSIVE UniqueCategoriesFrom(_, _, _)
UniqueCategoriesFrom(fetchedArticles, i, acc) ==
    IF i > Len(fetchedArticles) THEN acc
    ELSE LET c == fetchedArticles[i].category
         IN  UniqueCategoriesFrom(fetchedArticles, i + 1,
                 IF TruthyText(c) /\ c \notin Range(acc) THEN Append(acc, c) ELSE acc)

\* Faulty variant: a record without category counts under the fallback label
\* of the categorized forest.
UniqueCategoriesWithFallback(fetchedArticles) ==
    UniqueCategoriesFrom(
        [i \in DOMAIN fetchedArticles |->
            [category |-> IF TruthyText(fetchedArticles[i].category)
                          THEN fetchedArticles[i].category ELSE "Uncategorized"]],
        1, <<>>)

UniqueCategories(fetchedArticles) == UniqueCategoriesFrom(fetchedArticles, 1, <<>>)

\* ------------------------------------------------------------------------
\* Categorized forest: articleAPI.getCategorizedHierarchy / buildHierarchy
\* ------------------------------------------------------------------------
\* Faulty variant: the bucket key is the raw category, without the fallback label.
CategoryKeyRaw(article) == article.category

\* article.category || 'Uncategorized'
CategoryKey(article) ==
    IF TruthyText(article.category) THEN article.category ELSE "Uncategorized"

\* The grouping loop: categorized[category].push(article).
GroupByCategory(records) ==
    [c \in {CategoryKey(records[i]) : i \in DOMAIN records} |->
        SelectSeq(records, LAMBDA a : CategoryKey(a) = c)]

\* Faulty variant: the operands of the comparator are swapped (ascending).
KeepsBeforeAscending(a, b) == a.createdAt - b.createdAt <= 0

\* The comparator new Date(b.createdAt) - new Date(a.createdAt) <= 0:
\* a stays in front of b.
KeepsBefore(a, b) == b.createdAt - a.createdAt <= 0

\* Array.prototype.sort is stable: x goes behind every entry it does not precede.
RECURSIVE InsertSorted(_, _)
InsertSorted(sorted, x) ==
    IF sorted = <<>> THEN <<x>>
    ELSE IF KeepsBefore(Head(sorted), x)
         THEN <<Head(sorted)>> \o InsertSorted(Tail(sorted), x)
         ELSE <<x>> \o sorted

RECURSIVE SortFrom(_, _, _)
SortFrom(s, i, acc) ==
    IF i > Len(s) THEN acc ELSE SortFrom(s, i + 1, InsertSorted(acc, s[i]))

SortByCreatedAtDesc(s) == SortFrom(s, 1, <<>>)

\* .filter(article => article.parentId === parentId)
LevelOf(records, parentId) == SelectSeq(records, LAMBDA a : a.parentId = parentId)

RECURSIVE buildHierarchy(_, _)
buildHierarchy(records, parentId) ==
    LET level == LevelOf(records, parentId)
    IN  SortByCreatedAtDesc(
            [i \in 1..Len(level) |->
                [f \in DOMAIN level[i] \cup {"children"} |->
                    IF f = "children" THEN buildHierarchy(records, level[i].id)
                    ELSE level[i][f]]])

\* Faulty variant: each bucket is nested from the whole list, not from its
\* own members.
getCategorizedHierarchyUnscoped(records) ==
    LET buckets == GroupByCategory(records)
    IN  [c \in DOMAIN buckets |-> buildHierarchy(records, NULL)]

\* Faulty variant: the members of a bucket that the nesting did not reach are
\* appended to its top level.
getCategorizedHierarchyKeepsUnreached(records) ==
    LET buckets == GroupByCategory(records)
    IN  [c \in DOMAIN buckets |->
            LET nested == buildHierarchy(buckets[c], NULL)
                RECURSIVE Reached(_)
                Reached(level) ==
                    UNION {{level[i].id} \cup Reached(level[i].children) : i \in DOMAIN level}
                rest == SelectSeq(buckets[c], LAMBDA a : a.id \notin Reached(nested))
            IN  nested \o [i \in DOMAIN rest |->
                              [f \in DOMAIN rest[i] \cup {"children"} |->
                                  IF f = "children" THEN <<>> ELSE rest[i][f]]]]

getCategorizedHierarchy(records) ==
    LET buckets == GroupByCategory(records)
    IN  [c \in DOMAIN buckets |-> buildHierarchy(buckets[c], NULL)]

\* ------------------------------------------------------------------------
\* SpecBuild: the two builders applied to every fetched flat list
\* ------------------------------------------------------------------------
InjectiveSeqs(S, k) ==
    {s \in [1..k -> S] : \A i, j \in 1..k : i # j => s[i] # s[j]}

\* The rows arrive ordered by createdAt descending; only the relative order of
\* the timestamps matters, so they are ranks without gaps.
DescendingRanks(k) ==
    {t \in [1..k -> 1..k] :
        /\ k > 0 => t[k] = 1
        /\ \A i \in 1..(k - 1) : t[i] - t[i + 1] \in {0, 1}}

InitBuild ==
    /\ \E k \in 0..NumArticles :
         \E ids \in InjectiveSeqs(Ids, k), ps \in [1..k -> ParentIds],
            cs \in [1..k -> Categories], ts \in DescendingRanks(k) :
                flat = [i \in 1..k |-> Article(ids[i], ps[i], cs[i], ts[i])]
    /\ rootBuilds = 0
    /\ forestBuilt = FALSE
    /\ articles = NoTree
    /\ categories = <<>>
    /\ categorizedArticles = <<>>
    /\ categorized = <<>>
    /\ viewMode = "table"
    /\ loading = TRUE
    /\ error = NoError
    /\ db = <<>>
    /\ handlers = <<>>
    /\ orphaned = {}
    /\ refetched = FALSE
    /\ expandedNodes = {}
    /\ lastOp = ""
    /\ searchQuery = <<>>
    /\ selectedCategory = "all"
    /\ statusFilter = "all"
    /\ currentPage = 1
    /\ itemsPerPage = 10

\* fetchArticles after a successful response: build, setArticles, setCategories.
ApplyRootBuild ==
    /\ rootBuilds < MaxBuilds
    /\ articles' = BuildRootTree(flat)
    /\ categories' = UniqueCategories(flat)
    /\ rootBuilds' = rootBuilds + 1
    /\ UNCHANGED <<flat, forestBuilt, categorizedArticles, categorized, uiVars, expansionVars, tableVars>>

\* fetchCategorizedHierarchy after a successful response.
ApplyForestBuild ==
    /\ ~forestBuilt
    /\ categorizedArticles' = getCategorizedHierarchy(flat)
    /\ categorized' = GroupByCategory(flat)
    /\ forestBuilt' = TRUE
    /\ UNCHANGED <<flat, rootBuilds, articles, categories, uiVars, expansionVars, tableVars>>

NextBuild == ApplyRootBuild \/ ApplyForestBuild

SpecBuild == InitBuild /\ [][NextBuild]_vars

\* ------------------------------------------------------------------------
\* Spec: ArticleList against the articles table
\* ------------------------------------------------------------------------
\* Rows of the table in the order a query with order('createdAt', descending)
\* may return them: rows with equal createdAt come in any order.
ResponseLists(table) ==
    {[i \in 1..Cardinality(DOMAIN table) |-> table[ids[i]]] :
        ids \in {s \in InjectiveSeqs(DOMAIN table, Cardinality(DOMAIN table)) :
                    \A i \in 1..(Len(s) - 1) :
                        table[s[i]].createdAt >= table[s[i + 1]].createdAt}}

\* Ids of the rows that have the given row among their ancestors.
RECURSIVE DescendantsIn(_, _, _)
DescendantsIn(table, frontier, seen) ==
    LET next == {x \in DOMAIN table : table[x].parentId \in frontier} \ seen
    IN  IF next = {} THEN seen ELSE DescendantsIn(table, next, seen \cup next)

\* supabase.from('articles').delete().eq('id', id)
DeleteRow(table, id) == [x \in DOMAIN table \ {id} |-> table[x]]

\* Ids of the nodes reachable from the root list of articles.
RECURSIVE CollectFrom(_, _, _)
CollectFrom(tree, frontier, seen) ==
    IF frontier \subseteq seen THEN seen
    ELSE CollectFrom(tree,
                     UNION {Range(tree.articleMap[n].children) : n \in frontier \ seen},
                     seen \cup frontier)

TreeIds(tree) == CollectFrom(tree, Range(tree.rootArticles), {})

\* Ids of the entries of a nested list, at every depth.
RECURSIVE NestedIds(_)
NestedIds(level) ==
    UNION {{level[i].id} \cup NestedIds(level[i].children) : i \in DOMAIN level}

ForestIds(forest) == UNION {NestedIds(forest[c]) : c \in DOMAIN forest}

\* All nodes of a nested list, at every depth.
RECURSIVE NodesOf(_)
NodesOf(level) ==
    UNION {{level[i]} \cup NodesOf(level[i].children) : i \in DOMAIN level}

\* The key of an article in expandedNodes: article.id.
ArticleNodeId(id) == <<"article", id>>

\* The key of a category header: `category-${category}`.
categoryId(category) == <<"category", category>>

\* Faulty variant: the key is only ever added.
newExpandedOnlyAdds(nodes, nodeId) == nodes \cup {nodeId}

\* Faulty variant: expanding a node collapses every other node.
newExpandedOneAtATime(nodes, nodeId) ==
    IF nodeId \in nodes THEN nodes \ {nodeId} ELSE {nodeId}

\* toggleExpanded: the copy of the set with nodeId deleted if present, added
\* if not.
newExpanded(nodes, nodeId) ==
    IF nodeId \in nodes THEN nodes \ {nodeId} ELSE nodes \cup {nodeId}

\* Faulty variant: the traversal stops below the children of the roots.
RECURSIVE collectIdsTwoLevels(_, _)
collectIdsTwoLevels(tree, list) ==
    UNION {{ArticleNodeId(list[i])}
           \cup {ArticleNodeId(c) : c \in Range(tree.articleMap[list[i]].children)}
           : i \in DOMAIN list}

\* expandAll's collectIds: adds the id of every entry and descends into its
\* children.
RECURSIVE collectIds(_, _)
collectIds(tree, list) ==
    UNION {{ArticleNodeId(list[i])} \cup collectIds(tree, tree.articleMap[list[i]].children)
           : i \in DOMAIN list}

\* Faulty variant: the children of an article are rendered whether or not the
\* article is expanded.
RECURSIVE renderArticleNodeAlwaysOpen(_, _)
renderArticleNodeAlwaysOpen(article, expanded) ==
    {[id |-> article.id, toggle |-> article.children # <<>>]}
    \cup UNION {renderArticleNodeAlwaysOpen(article.children[i], expanded)
                : i \in DOMAIN article.children}

\* CategoryTreeNode.renderArticleNode: the rows rendered for an article of
\* the tree view; toggle tells whether the row carries the chevron button.
RECURSIVE renderArticleNode(_, _)
renderArticleNode(article, expanded) ==
    {[id |-> article.id, toggle |-> article.children # <<>>]}
    \cup IF article.children # <<>> /\ ArticleNodeId(article.id) \in expanded
         THEN UNION {renderArticleNode(article.children[i], expanded)
                     : i \in DOMAIN article.children}
         ELSE {}

\* CategoryTreeNode: the article rows below a category header.
CategoryTreeNode(category, list, expanded) ==
    IF categoryId(category) \in expanded
    THEN UNION {renderArticleNode(list[i], expanded) : i \in DOMAIN list}
    ELSE {}

\* HierarchicalTableView.renderTableRow: the rows rendered for an article of
\* the table view.
RECURSIVE renderTableRow(_, _, _)
renderTableRow(tree, id, expanded) ==
    LET children == tree.articleMap[id].children
    IN  {[id |-> id, toggle |-> children # <<>>]}
        \cup IF children # <<>> /\ ArticleNodeId(id) \in expanded
             THEN UNION {renderTableRow(tree, children[i], expanded) : i \in DOMAIN children}
             ELSE {}

HierarchicalTableView(tree, expanded) ==
    UNION {renderTableRow(tree, tree.rootArticles[i], expanded) : i \in DOMAIN tree.rootArticles}

\* The article rows of the tree view, all categories together.
TreeViewRows ==
    UNION {CategoryTreeNode(c, categorizedArticles[c], expandedNodes)
           : c \in DOMAIN categorizedArticles}

\* The article rows the page renders in the current view mode.
Rows ==
    IF viewMode = "tree" THEN TreeViewRows ELSE HierarchicalTableView(articles, expandedNodes)

\* The keys of the buttons that call toggleExpanded: the chevrons of the rows
\* with children and, in the tree view, the category headers.
ToggleButtons ==
    {ArticleNodeId(r.id) : r \in {x \in Rows : x.toggle}}
    \cup (IF viewMode = "tree"
          THEN {categoryId(c) : c \in DOMAIN categorizedArticles}
          ELSE {})

\* The articles whose delete button the current view offers.
ShownIds == {r.id : r \in Rows}

\* article.status of the rendered article with the given id.
RenderedStatus(id) ==
    IF viewMode = "tree"
    THEN (CHOOSE n \in UNION {NodesOf(categorizedArticles[c]) : c \in DOMAIN categorizedArticles} :
              n.id = id).status
    ELSE articles.articleMap[id].status

\* The timestamp updateStatus writes to publishedAt: new Date().toISOString().
Now == 1

\* A row of the articles table: the article fields with its status columns.
Row(id, parentId, category, createdAt, status, publishedAt) ==
    [id |-> id, parentId |-> parentId, category |-> category, createdAt |-> createdAt,
     status |-> status, publishedAt |-> publishedAt]

\* Faulty variant: moving an article back to draft keeps its publishedAt.
updateStatusRowKeepsPublishedAt(table, id, status) ==
    [table EXCEPT ![id].status = status,
                  ![id].publishedAt = IF status = "published" THEN Now ELSE @]

\* The update of articleAPI.updateStatus: the status, and publishedAt set
\* when publishing and cleared when moving to draft.
updateStatusRow(table, id, status) ==
    [table EXCEPT ![id].status = status,
                  ![id].publishedAt = IF status = "published" THEN Now ELSE NULL]

Handler(op, pc, id) ==
    [op |-> op, pc |-> pc, id |-> id, state |-> "sent", rows |-> <<>>, treeOk |-> FALSE,
     newStatus |-> ""]

RemoveAt(s, i) == [j \in 1..(Len(s) - 1) |-> IF j < i THEN s[j] ELSE s[j + 1]]

\* The page renders only the spinner while loading.
Interactive == ~loading /\ Len(handlers) < MaxInFlight

Init ==
    /\ \E k \in 0..NumRows :
         \E ps \in [1..k -> {NULL} \cup (1..NumRows)], c \in {"", "News"},
            ts \in DescendingRanks(k) :
                db = [i \in 1..k |-> Row(i, ps[i], c, ts[i], "draft", NULL)]
    /\ flat = <<>>
    /\ rootBuilds = 0
    /\ forestBuilt = FALSE
    /\ categorized = <<>>
    /\ articles = NoTree
    /\ categories = <<>>
    /\ categorizedArticles = <<>>
    /\ viewMode = "table"
    /\ loading = TRUE
    /\ error = NoError
    /\ handlers = <<[op |-> "fetchArticles", pc |-> "effect", id |-> NULL,
                     state |-> "idle", rows |-> <<>>, treeOk |-> FALSE, newStatus |-> ""]>>
    /\ orphaned = {}
    /\ refetched = FALSE
    /\ expandedNodes = {}
    /\ lastOp = ""
    /\ searchQuery = <<>>
    /\ selectedCategory = "all"
    /\ statusFilter = "all"
    /\ currentPage = 1
    /\ itemsPerPage = 10

\* useEffect(() => { fetchArticles(); }, []): fetchArticles up to its await.
MountEffect ==
    /\ Len(handlers) = 1 /\ handlers[1].pc = "effect"
    /\ loading' = TRUE
    /\ error' = NoError
    /\ handlers' = <<Handler("fetchArticles", "articles", NULL)>>
    /\ lastOp' = ""
    /\ UNCHANGED <<buildVars, derivedVars, viewMode, db, orphaned, refetched, expandedNodes, tableVars>>

\* The "Tree View" button; the viewMode effect calls fetchCategorizedHierarchy.
ClickTreeView ==
    /\ Interactive
    /\ viewMode = "table"
    /\ viewMode' = "tree"
    /\ loading' = TRUE
    /\ handlers' = Append(handlers, Handler("fetchCategorizedHierarchy", "forest", NULL))
    /\ lastOp' = ""
    /\ UNCHANGED <<buildVars, derivedVars, error, db, orphaned, refetched, expandedNodes, tableVars>>

\* The "Table View" button.
ClickTableView ==
    /\ Interactive
    /\ viewMode = "tree"
    /\ viewMode' = "table"
    /\ lastOp' = ""
    /\ UNCHANGED <<buildVars, derivedVars, loading, error, db, handlers, orphaned, refetched, expandedNodes, tableVars>>

\* deleteArticle, confirmed, up to await articleAPI.delete(id).
ClickDelete ==
    /\ Interactive
    /\ \E id \in ShownIds :
         handlers' = Append(handlers, Handler("deleteArticle", "delete", id))
    /\ lastOp' = ""
    /\ UNCHANGED <<buildVars, derivedVars, viewMode, loading, error, db, orphaned, refetched, expandedNodes, tableVars>>

\* The Publish / Unpublish button of a row: handleStatusChange up to
\* await articleAPI.updateStatus(id, newStatus).
ClickStatusChange ==
    /\ Interactive
    /\ \E id \in ShownIds :
         handlers' = Append(handlers,
             [Handler("handleStatusChange", "status", id) EXCEPT
                 !.newStatus = IF RenderedStatus(id) = "published" THEN "draft"
                               ELSE "published"])
    /\ loading' = TRUE
    /\ lastOp' = ""
    /\ UNCHANGED <<buildVars, derivedVars, viewMode, error, db, orphaned, refetched, expandedNodes, tableVars>>

\* The "Try again" button of the error banner: fetchArticles up to its await.
ClickRetry ==
    /\ Interactive
    /\ error # NoError
    /\ loading' = TRUE
    /\ error' = NoError
    /\ handlers' = Append(handlers, Handler("fetchArticles", "articles", NULL))
    /\ lastOp' = ""
    /\ UNCHANGED <<buildVars, derivedVars, viewMode, db, orphaned, refetched, expandedNodes, tableVars>>

\* A chevron or a category header is clicked.
toggleExpanded ==
    /\ ~loading
    /\ \E nodeId \in ToggleButtons :
         expandedNodes' = newExpanded(expandedNodes, nodeId)
    /\ lastOp' = ""
    /\ UNCHANGED <<buildVars, derivedVars, uiVars, tableVars>>

\* Faulty variant: the collected ids are added to the keys already there.
expandAllAdding ==
    /\ ~loading
    /\ expandedNodes' = expandedNodes \cup collectIds(articles, articles.rootArticles)
    /\ lastOp' = "expandAll"
    /\ UNCHANGED <<buildVars, derivedVars, uiVars, tableVars>>

\* expandAll (its button is commented out in the header of the page).
expandAll ==
    /\ ~loading
    /\ expandedNodes' = collectIds(articles, articles.rootArticles)
    /\ lastOp' = "expandAll"
    /\ UNCHANGED <<buildVars, derivedVars, uiVars, tableVars>>

\* Faulty variant: only the article keys are dropped.
collapseAllKeepsCategories ==
    /\ ~loading
    /\ expandedNodes' = {k \in expandedNodes : k[1] = "category"}
    /\ lastOp' = "collapseAll"
    /\ UNCHANGED <<buildVars, derivedVars, uiVars, tableVars>>

\* collapseAll (its button is commented out in the header of the page).
collapseAll ==
    /\ ~loading
    /\ expandedNodes' = {}
    /\ lastOp' = "collapseAll"
    /\ UNCHANGED <<buildVars, derivedVars, uiVars, tableVars>>

\* The persistence service carries out a delete request.
ServeDelete ==
    \E i \in DOMAIN handlers :
        /\ handlers[i].state = "sent" /\ handlers[i].pc = "delete"
        /\ LET id == handlers[i].id
           IN  /\ db' = DeleteRow(db, id)
               /\ orphaned' = IF id \in DOMAIN db
                              THEN (orphaned \cup DescendantsIn(db, {id}, {})) \ {id}
                              ELSE orphaned
        /\ refetched' = FALSE
        /\ handlers' = [handlers EXCEPT ![i].state = "ok"]
        /\ lastOp' = ""
        /\ UNCHANGED <<buildVars, derivedVars, viewMode, loading, error, expandedNodes, tableVars>>

\* articleAPI.updateStatus at the persistence service: the row gets the
\* status, and publishedAt is set when publishing and cleared otherwise;
\* .single() fails when no row has the id.
ServeUpdateStatus ==
    \E i \in DOMAIN handlers :
        /\ handlers[i].state = "sent" /\ handlers[i].pc = "status"
        /\ LET id == handlers[i].id
               status == handlers[i].newStatus
           IN  IF id \in DOMAIN db
               THEN /\ db' = updateStatusRow(db, id, status)
                    /\ handlers' = [handlers EXCEPT ![i].state = "ok"]
               ELSE /\ db' = db
                    /\ handlers' = [handlers EXCEPT ![i].state = "failed"]
        /\ lastOp' = ""
        /\ UNCHANGED <<buildVars, derivedVars, viewMode, loading, error, orphaned, refetched, expandedNodes, tableVars>>

\* The persistence service answers a select with the rows, newest first.
ServeSelect ==
    \E i \in DOMAIN handlers :
        /\ handlers[i].state = "sent" /\ handlers[i].pc \in {"articles", "forest"}
        /\ \E rows \in ResponseLists(db) :
               handlers' = [handlers EXCEPT ![i].state = "ok", ![i].rows = rows]
        /\ lastOp' = ""
        /\ UNCHANGED <<buildVars, derivedVars, viewMode, loading, error, db, orphaned, refetched, expandedNodes, tableVars>>

\* A request comes back with an error (the api function throws).
ServeError ==
    \E i \in DOMAIN handlers :
        /\ handlers[i].state = "sent"
        /\ handlers' = [handlers EXCEPT ![i].state = "failed"]
        /\ lastOp' = ""
        /\ UNCHANGED <<buildVars, derivedVars, viewMode, loading, error, db, orphaned, refetched, expandedNodes, tableVars>>

\* Faulty variant: a response is dropped while another handler is mid-sequence.
AfterFetchArticlesWhenAlone(h) ==
    IF h.state = "ok"
    THEN IF Len(handlers) = 1
         THEN [articles |-> BuildRootTree(h.rows), categories |-> UniqueCategories(h.rows),
               error |-> error]
         ELSE [articles |-> articles, categories |-> categories, error |-> error]
    ELSE [articles |-> articles, categories |-> categories,
          error |-> "Failed to fetch articles"]

\* Faulty variant: a failed fetch empties the list.
AfterFetchArticlesClearing(h) ==
    IF h.state = "ok"
    THEN [articles |-> BuildRootTree(h.rows), categories |-> UniqueCategories(h.rows),
          error |-> error]
    ELSE [articles |-> NoTree, categories |-> <<>>,
          error |-> "Failed to fetch articles"]

\* fetchArticles from its await to its end: build and set, or catch; finally.
\* Returns what it leaves in articles, categories and error.
AfterFetchArticles(h) ==
    IF h.state = "ok"
    THEN [articles |-> BuildRootTree(h.rows), categories |-> UniqueCategories(h.rows),
          error |-> error]
    ELSE [articles |-> articles, categories |-> categories,
          error |-> "Failed to fetch articles"]

\* fetchCategorizedHierarchy from its await to its end.
AfterFetchCategorized(h) ==
    IF h.state = "ok"
    THEN [categorizedArticles |-> getCategorizedHierarchy(h.rows), error |-> error]
    ELSE [categorizedArticles |-> categorizedArticles,
          error |-> "Failed to load categorized articles. Please try again."]

\* A fetchArticles call of the mount effect or of "Try again" resumes and ends.
ResumeFetchArticles ==
    \E i \in DOMAIN handlers :
        /\ handlers[i].op = "fetchArticles" /\ handlers[i].state \in {"ok", "failed"}
        /\ LET r == AfterFetchArticles(handlers[i])
           IN  /\ articles' = r.articles
               /\ categories' = r.categories
               /\ error' = r.error
        /\ loading' = FALSE
        /\ handlers' = RemoveAt(handlers, i)
        /\ lastOp' = ""
        /\ UNCHANGED <<buildVars, categorizedArticles, viewMode, db, orphaned, refetched, expandedNodes, tableVars>>

\* The fetchCategorizedHierarchy call of the viewMode effect resumes and ends.
ResumeFetchCategorized ==
    \E i \in DOMAIN handlers :
        /\ handlers[i].op = "fetchCategorizedHierarchy"
        /\ handlers[i].state \in {"ok", "failed"}
        /\ LET r == AfterFetchCategorized(handlers[i])
           IN  /\ categorizedArticles' = r.categorizedArticles
               /\ error' = r.error
        /\ loading' = FALSE
        /\ handlers' = RemoveAt(handlers, i)
        /\ lastOp' = ""
        /\ UNCHANGED <<buildVars, articles, categories, viewMode, db, orphaned, refetched, expandedNodes, tableVars>>

\* deleteArticle after await articleAPI.delete(id): on failure the catch sets
\* the error; on success fetchArticles runs up to its await.
ResumeDeleteAfterDelete ==
    \E i \in DOMAIN handlers :
        /\ handlers[i].op = "deleteArticle" /\ handlers[i].pc = "delete"
        /\ handlers[i].state \in {"ok", "failed"}
        /\ IF handlers[i].state = "failed"
           THEN /\ error' = "Failed to delete article"
                /\ handlers' = RemoveAt(handlers, i)
                /\ UNCHANGED loading
           ELSE /\ loading' = TRUE
                /\ error' = NoError
                /\ handlers' = [handlers EXCEPT ![i].pc = "articles", ![i].state = "sent"]
        /\ lastOp' = ""
        /\ UNCHANGED <<buildVars, derivedVars, viewMode, db, orphaned, refetched, expandedNodes, tableVars>>

\* Faulty variant: the categorized forest is refetched only in the tree view.
ResumeDeleteAfterArticlesTreeOnly ==
    \E i \in DOMAIN handlers :
        /\ handlers[i].op = "deleteArticle" /\ handlers[i].pc = "articles"
        /\ handlers[i].state \in {"ok", "failed"}
        /\ LET r == AfterFetchArticles(handlers[i])
           IN  /\ articles' = r.articles
               /\ categories' = r.categories
               /\ error' = r.error
        /\ IF viewMode = "tree"
           THEN /\ loading' = TRUE
                /\ handlers' = [handlers EXCEPT ![i].pc = "forest", ![i].state = "sent",
                                                ![i].rows = <<>>,
                                                ![i].treeOk = (handlers[i].state = "ok")]
           ELSE /\ loading' = FALSE
                /\ handlers' = RemoveAt(handlers, i)
        /\ lastOp' = ""
        /\ UNCHANGED <<buildVars, categorizedArticles, viewMode, db, orphaned, refetched, expandedNodes, tableVars>>

\* deleteArticle after await fetchArticles(): fetchArticles ends (it catches
\* its own failure), then fetchCategorizedHierarchy runs up to its await.
ResumeDeleteAfterArticles ==
    \E i \in DOMAIN handlers :
        /\ handlers[i].op = "deleteArticle" /\ handlers[i].pc = "articles"
        /\ handlers[i].state \in {"ok", "failed"}
        /\ LET r == AfterFetchArticles(handlers[i])
           IN  /\ articles' = r.articles
               /\ categories' = r.categories
               /\ error' = r.error
        /\ loading' = TRUE
        /\ handlers' = [handlers EXCEPT ![i].pc = "forest", ![i].state = "sent",
                                        ![i].rows = <<>>,
                                        ![i].treeOk = (handlers[i].state = "ok")]
        /\ lastOp' = ""
        /\ UNCHANGED <<buildVars, categorizedArticles, viewMode, db, orphaned, refetched, expandedNodes, tableVars>>

\* deleteArticle after await fetchCategorizedHierarchy(): it ends.
ResumeDeleteAfterCategorized ==
    \E i \in DOMAIN handlers :
        /\ handlers[i].op = "deleteArticle" /\ handlers[i].pc = "forest"
        /\ handlers[i].state \in {"ok", "failed"}
        /\ LET r == AfterFetchCategorized(handlers[i])
           IN  /\ categorizedArticles' = r.categorizedArticles
               /\ error' = r.error
        /\ loading' = FALSE
        /\ refetched' = (handlers[i].state = "ok" /\ handlers[i].treeOk
                         /\ Len(handlers) = 1)
        /\ handlers' = RemoveAt(handlers, i)
        /\ lastOp' = ""
        /\ UNCHANGED <<buildVars, articles, categories, viewMode, db, orphaned, expandedNodes, tableVars>>

\* Faulty variant: setLoading(false) is the last statement of the try block
\* instead of a finally, so a failed update leaves the spinner on.
ResumeStatusAfterUpdateNoFinally ==
    \E i \in DOMAIN handlers :
        /\ handlers[i].op = "handleStatusChange" /\ handlers[i].pc = "status"
        /\ handlers[i].state \in {"ok", "failed"}
        /\ IF handlers[i].state = "failed"
           THEN /\ error' = "Failed to update article status"
                /\ loading' = loading
                /\ handlers' = RemoveAt(handlers, i)
           ELSE /\ loading' = TRUE
                /\ error' = NoError
                /\ handlers' = [handlers EXCEPT ![i].pc = "articles", ![i].state = "sent"]
        /\ lastOp' = ""
        /\ UNCHANGED <<buildVars, derivedVars, viewMode, db, orphaned, refetched, expandedNodes, tableVars>>

\* handleStatusChange after await articleAPI.updateStatus: on failure the
\* catch sets the error and finally clears loading; on success fetchArticles
\* runs up to its await.
ResumeStatusAfterUpdate ==
    \E i \in DOMAIN handlers :
        /\ handlers[i].op = "handleStatusChange" /\ handlers[i].pc = "status"
        /\ handlers[i].state \in {"ok", "failed"}
        /\ IF handlers[i].state = "failed"
           THEN /\ error' = "Failed to update article status"
                /\ loading' = FALSE
                /\ handlers' = RemoveAt(handlers, i)
           ELSE /\ loading' = TRUE
                /\ error' = NoError
                /\ handlers' = [handlers EXCEPT ![i].pc = "articles", ![i].state = "sent"]
        /\ lastOp' = ""
        /\ UNCHANGED <<buildVars, derivedVars, viewMode, db, orphaned, refetched, expandedNodes, tableVars>>

\* handleStatusChange after await fetchArticles(): fetchArticles ends, then
\* fetchCategorizedHierarchy runs up to its await.
ResumeStatusAfterArticles ==
    \E i \in DOMAIN handlers :
        /\ handlers[i].op = "handleStatusChange" /\ handlers[i].pc = "articles"
        /\ handlers[i].state \in {"ok", "failed"}
        /\ LET r == AfterFetchArticles(handlers[i])
           IN  /\ articles' = r.articles
               /\ categories' = r.categories
               /\ error' = r.error
        /\ loading' = TRUE
        /\ handlers' = [handlers EXCEPT ![i].pc = "forest", ![i].state = "sent",
                                        ![i].rows = <<>>,
                                        ![i].treeOk = (handlers[i].state = "ok")]
        /\ lastOp' = ""
        /\ UNCHANGED <<buildVars, categorizedArticles, viewMode, db, orphaned, refetched, expandedNodes, tableVars>>

\* handleStatusChange after await fetchCategorizedHierarchy(): it ends, and
\* its finally clears loading.
ResumeStatusAfterCategorized ==
    \E i \in DOMAIN handlers :
        /\ handlers[i].op = "handleStatusChange" /\ handlers[i].pc = "forest"
        /\ handlers[i].state \in {"ok", "failed"}
        /\ LET r == AfterFetchCategorized(handlers[i])
           IN  /\ categorizedArticles' = r.categorizedArticles
               /\ error' = r.error
        /\ loading' = FALSE
        /\ handlers' = RemoveAt(handlers, i)
        /\ lastOp' = ""
        /\ UNCHANGED <<buildVars, articles, categories, viewMode, db, orphaned, refetched, expandedNodes, tableVars>>

Next ==
    \/ MountEffect
    \/ ClickTreeView
    \/ ClickTableView
    \/ ClickDelete
    \/ ClickStatusChange
    \/ ClickRetry
    \/ toggleExpanded
    \/ collapseAll
    \/ ServeDelete
    \/ ServeUpdateStatus
    \/ ServeSelect
    \/ ServeError
    \/ ResumeFetchArticles
    \/ ResumeFetchCategorized
    \/ ResumeDeleteAfterDelete
    \/ ResumeDeleteAfterArticles
    \/ ResumeDeleteAfterCategorized
    \/ ResumeStatusAfterUpdate
    \/ ResumeStatusAfterArticles
    \/ ResumeStatusAfterCategorized

Spec == Init /\ [][Next]_vars

\* ------------------------------------------------------------------------
\* SpecLive: ArticleList when every request returns
\* ------------------------------------------------------------------------
\* The user mounts the page, switches the view, deletes, changes a status or
\* retries.
UserActs ==
    \/ ClickTreeView
    \/ ClickTableView
    \/ ClickDelete
    \/ ClickStatusChange
    \/ ClickRetry

\* A request that was issued returns, with a result or with an error.
RequestReturns ==
    \/ ServeDelete
    \/ ServeUpdateStatus
    \/ ServeSelect
    \/ ServeError

\* The event loop runs the mount effect or the continuation of a handler
\* whose awaited request has returned.
HandlerResumes ==
    \/ MountEffect
    \/ ResumeFetchArticles
    \/ ResumeFetchCategorized
    \/ ResumeDeleteAfterDelete
    \/ ResumeDeleteAfterArticles
    \/ ResumeDeleteAfterCategorized
    \/ ResumeStatusAfterUpdate
    \/ ResumeStatusAfterArticles
    \/ ResumeStatusAfterCategorized

NextLive == UserActs \/ RequestReturns \/ HandlerResumes

SpecLive ==
    /\ Init
    /\ [][NextLive]_vars
    /\ WF_vars(RequestReturns)
    /\ WF_vars(HandlerResumes)

\* ------------------------------------------------------------------------
\* SpecRace: ArticleList with overlapping handlers
\* ------------------------------------------------------------------------
\* deleteArticle does not set loading before its delete request has returned,
\* so the page stays interactive and a second handler can start.
InteractiveWhilePending == ~loading /\ Len(handlers) < MaxOverlap

\* deleteArticle, confirmed, up to await articleAPI.delete(id), possibly
\* while another handler is mid-sequence.
ClickDeleteWhilePending ==
    /\ InteractiveWhilePending
    /\ \E id \in ShownIds :
         handlers' = Append(handlers, Handler("deleteArticle", "delete", id))
    /\ lastOp' = ""
    /\ UNCHANGED <<buildVars, derivedVars, viewMode, loading, error, db, orphaned, refetched, expandedNodes, tableVars>>

\* handleStatusChange up to await articleAPI.updateStatus(id, newStatus),
\* possibly while another handler is mid-sequence.
ClickStatusChangeWhilePending ==
    /\ InteractiveWhilePending
    /\ \E id \in ShownIds :
         handlers' = Append(handlers,
             [Handler("handleStatusChange", "status", id) EXCEPT
                 !.newStatus = IF RenderedStatus(id) = "published" THEN "draft"
                               ELSE "published"])
    /\ loading' = TRUE
    /\ lastOp' = ""
    /\ UNCHANGED <<buildVars, derivedVars, viewMode, error, db, orphaned, refetched, expandedNodes, tableVars>>

\* The table view with deletes and status changes that may overlap; every
\* request reaches the persistence service.
NextRace ==
    \/ MountEffect
    \/ ClickDeleteWhilePending
    \/ ClickStatusChangeWhilePending
    \/ ServeDelete
    \/ ServeUpdateStatus
    \/ ServeSelect
    \/ ResumeFetchArticles
    \/ ResumeDeleteAfterDelete
    \/ ResumeDeleteAfterArticles
    \/ ResumeDeleteAfterCategorized
    \/ ResumeStatusAfterUpdate
    \/ ResumeStatusAfterArticles
    \/ ResumeStatusAfterCategorized

SpecRace == Init /\ [][NextRace]_vars

\* ------------------------------------------------------------------------
\* SpecStore: the operations that write the articles table
\* ------------------------------------------------------------------------
\* The table is empty before the first article is created.
InitStore ==
    /\ db = <<>>
    /\ flat = <<>>
    /\ rootBuilds = 0
    /\ forestBuilt = FALSE
    /\ categorized = <<>>
    /\ articles = NoTree
    /\ categories = <<>>
    /\ categorizedArticles = <<>>
    /\ viewMode = "table"
    /\ loading = TRUE
    /\ error = NoError
    /\ handlers = <<>>
    /\ orphaned = {}
    /\ refetched = FALSE
    /\ expandedNodes = {}
    /\ lastOp = ""
    /\ searchQuery = <<>>
    /\ selectedCategory = "all"
    /\ statusFilter = "all"
    /\ currentPage = 1
    /\ itemsPerPage = 10

\* created_at of a new row, @default(now()): later than every row there is.
NextCreatedAt(table) ==
    1 + (IF DOMAIN table = {} THEN 0
         ELSE CHOOSE t \in {table[x].createdAt : x \in DOMAIN table} :
                  \A x \in DOMAIN table : table[x].createdAt <= t)

\* ArticleEditor.handleSave of a new article: articleAPI.create inserts
\* articleData, which carries neither status nor publishedAt, so the row
\* gets the column defaults; an empty parentId is left out of articleData.
EditorCreate ==
    /\ NextCreatedAt(db) <= MaxCreatedAt
    /\ \E id \in (1..NumRows) \ DOMAIN db, category \in Categories,
          parentId \in {NULL} \cup DOMAIN db :
        db' = [x \in DOMAIN db \cup {id} |->
                  IF x = id
                  THEN Row(id, parentId, category, NextCreatedAt(db), "draft", NULL)
                  ELSE db[x]]
    /\ UNCHANGED <<buildVars, derivedVars, viewMode, loading, error, handlers, orphaned,
                   refetched, expansionVars, tableVars>>

\* ArticleEditor.handleSave of an article being edited: articleAPI.update
\* sets the columns of articleData; an empty parentId is left out, so the
\* column keeps its value.
EditorUpdate ==
    /\ \E id \in DOMAIN db, category \in Categories, parentId \in {NULL} \cup DOMAIN db :
        db' = [db EXCEPT ![id].category = category,
                         ![id].parentId = IF TruthyId(parentId) THEN parentId ELSE @]
    /\ UNCHANGED <<buildVars, derivedVars, viewMode, loading, error, handlers, orphaned,
                   refetched, expansionVars, tableVars>>

\* articleAPI.updateStatus on a row of the table.
StoreUpdateStatus ==
    /\ \E id \in DOMAIN db, status \in {"draft", "published"} :
        db' = updateStatusRow(db, id, status)
    /\ UNCHANGED <<buildVars, derivedVars, viewMode, loading, error, handlers, orphaned,
                   refetched, expansionVars, tableVars>>

\* articleAPI.delete on a row of the table.
StoreDelete ==
    /\ \E id \in DOMAIN db : db' = DeleteRow(db, id)
    /\ UNCHANGED <<buildVars, derivedVars, viewMode, loading, error, handlers, orphaned,
                   refetched, expansionVars, tableVars>>

NextStore == EditorCreate \/ EditorUpdate \/ StoreUpdateStatus \/ StoreDelete

SpecStore == InitStore /\ [][NextStore]_vars

\* ------------------------------------------------------------------------
\* SpecView: the expansion handlers on a loaded page
\* ------------------------------------------------------------------------
\* The page after both structures were loaded from a table of up to
\* NumArticles rows created at different times, in either view mode.
InitView ==
    /\ \E k \in 0..NumArticles :
         \E ps \in [1..k -> {NULL} \cup Ids], cs \in [1..k -> Categories] :
             flat = [i \in 1..k |-> Article(i, ps[i], cs[i], k + 1 - i)]
    /\ rootBuilds = 1
    /\ forestBuilt = TRUE
    /\ categorized = GroupByCategory(flat)
    /\ articles = BuildRootTree(flat)
    /\ categories = UniqueCategories(flat)
    /\ categorizedArticles = getCategorizedHierarchy(flat)
    /\ viewMode \in {"table", "tree"}
    /\ loading = FALSE
    /\ error = NoError
    /\ db = <<>>
    /\ handlers = <<>>
    /\ orphaned = {}
    /\ refetched = FALSE
    /\ expandedNodes = {}
    /\ lastOp = ""
    /\ searchQuery = <<>>
    /\ selectedCategory = "all"
    /\ statusFilter = "all"
    /\ currentPage = 1
    /\ itemsPerPage = 10

NextView == toggleExpanded \/ expandAll \/ collapseAll

SpecView == InitView /\ [][NextView]_vars

\* ------------------------------------------------------------------------
\* SpecTable: TableView, the filtered and paginated table of ArticleList
\* ------------------------------------------------------------------------
\* Texts are sequences of characters.
toLowerCaseChar(ch) ==
    CASE ch = "A" -> "a"
      [] ch = "B" -> "b"
      [] OTHER -> ch

\* Faulty variant: the text is compared as it is written.
toLowerCaseKeepsCase(str) == str

\* String.prototype.toLowerCase
toLowerCase(str) == [i \in DOMAIN str |-> toLowerCaseChar(str[i])]

\* String.prototype.includes
includes(str, searchString) ==
    \E start \in 0..(Len(str) - Len(searchString)) :
        SubSeq(str, start + 1, start + Len(searchString)) = searchString

\* The predicate of articles.filter in TableView.
matchesFilter(article) ==
    LET matchesSearch ==
            \/ includes(toLowerCase(article.title), toLowerCase(searchQuery))
            \/ includes(toLowerCase(article.content), toLowerCase(searchQuery))
        matchesCategory == selectedCategory = "all" \/ article.category = selectedCategory
        matchesStatus == statusFilter = "all" \/ article.status = statusFilter
    IN  matchesSearch /\ matchesCategory /\ matchesStatus

\* Faulty variant: the table lists every fetched record, nested or not.
RootRecordsWithChildren == [i \in DOMAIN flat |-> articles.articleMap[flat[i].id]]

\* The articles state as TableView sees it: the list of root records.
RootRecords ==
    [i \in DOMAIN articles.rootArticles |-> articles.articleMap[articles.rootArticles[i]]]

filteredArticles == SelectSeq(RootRecords, matchesFilter)

\* Faulty variant: the quotient is rounded down.
MathCeilRoundsDown(n, d) == n \div d

\* Math.ceil(n / d) for a count n and a page size d.
MathCeil(n, d) == IF n % d = 0 THEN n \div d ELSE (n \div d) + 1

totalPages == MathCeil(Len(filteredArticles), itemsPerPage)

\* Array.prototype.slice(start, end) with 0 <= start <= end.
slice(list, start, end) ==
    [i \in 1..((IF end < Len(list) THEN end ELSE Len(list)) - start) |-> list[start + i]]

paginatedArticles ==
    slice(filteredArticles, (currentPage - 1) * itemsPerPage, currentPage * itemsPerPage)

\* A fetched record with the columns TableView reads.
Listed(id, parentId, category, createdAt, status, title, content) ==
    [id |-> id, parentId |-> parentId, category |-> category, createdAt |-> createdAt,
     status |-> status, title |-> title, content |-> content]

Titles == {<<"A", "b">>, <<"b">>}

Contents == {<<>>, <<"a">>}

\* What is typed into the search box.
Queries == {<<>>, <<"a">>, <<"a", "B">>, <<"c">>}

PageSizes == {5, 10, 20, 50}

\* Math.max(1, currentPage - 1)
toPreviousPage(page) == IF page - 1 > 1 THEN page - 1 ELSE 1

\* Faulty variant: the next page is not capped by the number of pages.
toNextPageUncapped(page, pages) == page + 1

\* Math.min(totalPages, currentPage + 1)
toNextPage(page, pages) == IF page + 1 < pages THEN page + 1 ELSE pages

\* The table view after fetchArticles has loaded either a short list whose
\* records vary in every column the filter reads, or a long list of root
\* records of which the newest ones are published.
InitTable ==
    /\ \/ \E k \in 0..NumListed :
            \E ps \in [1..k -> {NULL, 1}], cs \in [1..k -> {"", "News"}],
               ss \in [1..k -> {"draft", "published"}],
               tt \in [1..k -> Titles], cc \in [1..k -> Contents] :
                   flat = [i \in 1..k |->
                              Listed(i, ps[i], cs[i], k + 1 - i, ss[i], tt[i], cc[i])]
       \/ \E n \in (NumListed + 1)..MaxRoots :
            \E m \in 0..n :
                flat = [i \in 1..n |->
                           Listed(i, NULL, "News", n + 1 - i,
                                  IF i <= m THEN "published" ELSE "draft", <<"a">>, <<"b">>)]
    /\ rootBuilds = 1
    /\ forestBuilt = FALSE
    /\ categorized = <<>>
    /\ articles = BuildRootTree(flat)
    /\ categories = UniqueCategories(flat)
    /\ categorizedArticles = <<>>
    /\ viewMode = "table"
    /\ loading = FALSE
    /\ error = NoError
    /\ db = <<>>
    /\ handlers = <<>>
    /\ orphaned = {}
    /\ refetched = FALSE
    /\ expandedNodes = {}
    /\ lastOp = ""
    /\ searchQuery = <<>>
    /\ selectedCategory = "all"
    /\ statusFilter = "all"
    /\ currentPage = 1
    /\ itemsPerPage = 10

\* The search box: onChange={(e) => setSearchQuery(e.target.value)}.
setSearchQuery ==
    /\ ~loading
    /\ \E value \in Queries : searchQuery' = value
    /\ UNCHANGED <<buildVars, derivedVars, uiVars, expansionVars,
                   selectedCategory, statusFilter, currentPage, itemsPerPage>>

\* The category select: "all" or one of categories.
setSelectedCategory ==
    /\ ~loading
    /\ \E value \in {"all"} \cup Range(categories) : selectedCategory' = value
    /\ UNCHANGED <<buildVars, derivedVars, uiVars, expansionVars,
                   searchQuery, statusFilter, currentPage, itemsPerPage>>

\* The status tabs of TableView.
setStatusFilter ==
    /\ ~loading
    /\ \E status \in {"all", "draft", "published"} : statusFilter' = status
    /\ UNCHANGED <<buildVars, derivedVars, uiVars, expansionVars,
                   searchQuery, selectedCategory, currentPage, itemsPerPage>>

\* The page-size select; the pagination bar is rendered when totalPages > 1.
setItemsPerPage ==
    /\ ~loading
    /\ totalPages > 1
    /\ \E value \in PageSizes : itemsPerPage' = value
    /\ UNCHANGED <<buildVars, derivedVars, uiVars, expansionVars,
                   searchQuery, selectedCategory, statusFilter, currentPage>>

\* The first-page button: setCurrentPage(1), disabled on page 1.
firstPage ==
    /\ ~loading
    /\ totalPages > 1
    /\ currentPage # 1
    /\ currentPage' = 1
    /\ UNCHANGED <<buildVars, derivedVars, uiVars, expansionVars,
                   searchQuery, selectedCategory, statusFilter, itemsPerPage>>

\* The previous-page button: setCurrentPage(Math.max(1, currentPage - 1)).
previousPage ==
    /\ ~loading
    /\ totalPages > 1
    /\ currentPage # 1
    /\ currentPage' = toPreviousPage(currentPage)
    /\ UNCHANGED <<buildVars, derivedVars, uiVars, expansionVars,
                   searchQuery, selectedCategory, statusFilter, itemsPerPage>>

\* The next-page button: setCurrentPage(Math.min(totalPages, currentPage + 1)),
\* disabled on the last page.
nextPage ==
    /\ ~loading
    /\ totalPages > 1
    /\ currentPage # totalPages
    /\ currentPage' = toNextPage(currentPage, totalPages)
    /\ UNCHANGED <<buildVars, derivedVars, uiVars, expansionVars,
                   searchQuery, selectedCategory, statusFilter, itemsPerPage>>

\* The last-page button: setCurrentPage(totalPages).
lastPage ==
    /\ ~loading
    /\ totalPages > 1
    /\ currentPage # totalPages
    /\ currentPage' = totalPages
    /\ UNCHANGED <<buildVars, derivedVars, uiVars, expansionVars,
                   searchQuery, selectedCategory, statusFilter, itemsPerPage>>

NextTable ==
    \/ setSearchQuery
    \/ setSelectedCategory
    \/ setStatusFilter
    \/ setItemsPerPage
    \/ firstPage
    \/ previousPage
    \/ nextPage
    \/ lastPage

SpecTable == InitTable /\ [][NextTable]_vars

\* The shape of the state, in every specification.
TypeOK ==
    /\ rootBuilds \in 0..MaxBuilds
    /\ forestBuilt \in BOOLEAN
    /\ Range(articles.rootArticles) \subseteq DOMAIN articles.articleMap
    /\ \A n \in DOMAIN articles.articleMap :
           /\ articles.articleMap[n].id = n
           /\ Range(articles.articleMap[n].children) \subseteq DOMAIN articles.articleMap
    /\ Range(categories) \subseteq Categories \ {""}
    /\ DOMAIN categorizedArticles \subseteq Categories \ {""}
    /\ DOMAIN categorized \subseteq Categories \ {""}
    /\ viewMode \in {"table", "tree"}
    /\ loading \in BOOLEAN
    /\ error \in {NoError, "Failed to fetch articles", "Failed to delete article",
                  "Failed to update article status",
                  "Failed to load categorized articles. Please try again."}
    /\ \A id \in DOMAIN db : db[id].id = id /\ db[id].category \in Categories
    /\ Len(handlers) <= (IF MaxOverlap > MaxInFlight THEN MaxOverlap ELSE MaxInFlight)
    /\ \A i \in DOMAIN handlers :
           /\ handlers[i].op \in {"fetchArticles", "fetchCategorizedHierarchy", "deleteArticle",
                                  "handleStatusChange"}
           /\ handlers[i].pc \in {"effect", "delete", "status", "articles", "forest"}
           /\ handlers[i].state \in {"idle", "sent", "ok", "failed"}
    /\ orphaned \subseteq 1..NumRows
    /\ refetched \in BOOLEAN
    /\ \A k \in expandedNodes : k[1] \in {"article", "category"}
    /\ lastOp \in {"", "expandAll", "collapseAll"}
    /\ searchQuery \in Queries
    /\ selectedCategory \in {"all"} \cup Categories
    /\ statusFilter \in {"all", "draft", "published"}
    /\ currentPage \in Nat \ {0}
    /\ itemsPerPage \in PageSizes

\* ------------------------------------------------------------------------
\* Properties of the root tree (SpecBuild)
\* ------------------------------------------------------------------------
RootBuilt == rootBuilds > 0

FlatIds == {flat[i].id : i \in DOMAIN flat}

\* Position of the record with the given id in the flat list.
PosInFlat(id) == CHOOSE i \in DOMAIN flat : flat[i].id = id

\* How often a node is referenced: from the root list and from every
\* children sequence of the object graph.
Occurrences(tree, id) ==
    Count(tree.rootArticles, id)
    + Cardinality(UNION {{<<n, i>> : i \in {j \in DOMAIN tree.articleMap[n].children :
                                              tree.articleMap[n].children[j] = id}}
                         : n \in DOMAIN tree.articleMap})

\* Nodes reachable from the root list by following children references.
RECURSIVE ReachFrom(_, _, _)
ReachFrom(tree, frontier, seen) ==
    IF frontier \subseteq seen THEN seen
    ELSE LET new == frontier \ seen
         IN  ReachFrom(tree,
                       UNION {Range(tree.articleMap[n].children) : n \in new},
                       seen \cup new)

Reachable(tree) == ReachFrom(tree, Range(tree.rootArticles), {})

\* The record's parentId names no record of the flat list.
Dangling(a) == TruthyId(a.parentId) /\ a.parentId \notin FlatIds

\* Following parentId from the record ends, within fuel steps, at a record
\* without parentId or with a dangling one (so not on a parent cycle).
RECURSIVE ChainEnds(_, _)
ChainEnds(id, fuel) ==
    LET a == flat[PosInFlat(id)]
    IN  IF ~TruthyId(a.parentId) \/ Dangling(a) THEN TRUE
        ELSE IF fuel = 0 THEN FALSE
        ELSE ChainEnds(a.parentId, fuel - 1)

\* C1: after the root tree is built from a flat list with unique ids, every
\* record of the list is referenced exactly once, counting the root list and
\* the children sequences of all nodes of the id->node map; nothing else is
\* referenced.
C1_PlacedExactlyOnce ==
    RootBuilt =>
        /\ DOMAIN articles.articleMap = FlatIds
        /\ \A id \in FlatIds : Occurrences(articles, id) = 1
        /\ Range(articles.rootArticles) \subseteq FlatIds
        /\ \A n \in DOMAIN articles.articleMap :
               Range(articles.articleMap[n].children) \subseteq FlatIds

\* A full list was built, with roots and with nested children.
C1_Witness ==
    /\ RootBuilt
    /\ Len(flat) = NumArticles
    /\ articles.rootArticles # <<>>
    /\ \E n \in DOMAIN articles.articleMap : articles.articleMap[n].children # <<>>

\* C2: a record whose parentId names no record of the flat list is an element
\* of the root list.
C2_OrphanFallback ==
    RootBuilt =>
        \A i \in DOMAIN flat :
            Dangling(flat[i]) => flat[i].id \in Range(articles.rootArticles)

\* A tree was built from a list holding an orphan next to a nested child.
C2_Witness ==
    /\ RootBuilt
    /\ \E i \in DOMAIN flat : Dangling(flat[i])
    /\ \E n \in DOMAIN articles.articleMap : articles.articleMap[n].children # <<>>

\* C3 as stated: every record of the flat list, parent cycles and self-parents
\* included, is reachable from the root list.
C3_AllReachable ==
    RootBuilt => FlatIds \subseteq Reachable(articles)

\* C3 amended: a record is reachable from the root list exactly when its
\* parentId chain ends (at a record with no parentId or a dangling one);
\* records on or below a parent cycle are reachable from no root.
C3_ReachableIffChainEnds ==
    RootBuilt =>
        \A id \in FlatIds : id \in Reachable(articles) <=> ChainEnds(id, Len(flat))

\* A list with a record nested under a root next to a record that sits on a
\* parent cycle and is reachable from no root.
C3_Witness ==
    /\ RootBuilt
    /\ \E r \in Range(articles.rootArticles) : articles.articleMap[r].children # <<>>
    /\ \E id \in FlatIds : id \notin Reachable(articles) /\ ~ChainEnds(id, Len(flat))

\* The ids of the sequence appear in the order of their records in flat.
InFlatOrder(s) ==
    \A i, j \in DOMAIN s : i < j => PosInFlat(s[i]) < PosInFlat(s[j])

\* C4: the children of a node are exactly the records whose parentId is the
\* node's id, each once, in flat-list order; the root list is in flat-list
\* order too.
C4_ChildrenInFlatOrder ==
    RootBuilt =>
        /\ \A n \in DOMAIN articles.articleMap :
             LET ch == articles.articleMap[n].children
             IN  /\ Range(ch) = {flat[i].id : i \in {j \in DOMAIN flat : flat[j].parentId = n}}
                 /\ Len(ch) = Cardinality(Range(ch))
                 /\ InFlatOrder(ch)
        /\ InFlatOrder(articles.rootArticles)

\* A node with two children that are not in id order.
C4_Witness ==
    /\ RootBuilt
    /\ \E n \in DOMAIN articles.articleMap :
         LET ch == articles.articleMap[n].children
         IN  Len(ch) = 2 /\ ch[1] > ch[2]

C23_CategoriesDistinctNonEmpty ==
    RootBuilt =>
        /\ Range(categories) = {flat[i].category : i \in DOMAIN flat} \ {""}
        /\ \A i, j \in DOMAIN categories : i # j => categories[i] # categories[j]
        /\ \A i, j \in DOMAIN categories :
               i < j =>
                   (CHOOSE x \in DOMAIN flat :
                        /\ flat[x].category = categories[i]
                        /\ \A y \in 1..(x - 1) : flat[y].category # categories[i])
                   < (CHOOSE x \in DOMAIN flat :
                        /\ flat[x].category = categories[j]
                        /\ \A y \in 1..(x - 1) : flat[y].category # categories[j])

\* The list has a root without category and two nested children that carry
\* the same category, which no root carries.
C23_Witness ==
    /\ RootBuilt
    /\ \E i \in DOMAIN flat :
         flat[i].category = "" /\ flat[i].id \in Range(articles.rootArticles)
    /\ \E i, j \in DOMAIN flat :
         /\ i # j
         /\ flat[i].category # ""
         /\ flat[i].category = flat[j].category
    /\ \A i \in DOMAIN flat :
         flat[i].category # "" => flat[i].id \notin Range(articles.rootArticles)

\* ------------------------------------------------------------------------
\* Properties of the categorized forest (SpecBuild)
\* ------------------------------------------------------------------------
\* Ids of a forest node and of everything nested below it.
RECURSIVE SubtreeIds(_)
SubtreeIds(n) == {n.id} \cup UNION {SubtreeIds(n.children[i]) : i \in DOMAIN n.children}

DescendantIds(n) == UNION {SubtreeIds(n.children[i]) : i \in DOMAIN n.children}

\* All levels of a nested list: the list itself and every children sequence.
RECURSIVE LevelsOf(_)
LevelsOf(level) ==
    {level} \cup UNION {LevelsOf(level[i].children) : i \in DOMAIN level}

TopLevelIds(level) == {level[i].id : i \in DOMAIN level}

\* The label a record is filed under: its category, or the fallback label.
BucketLabel(a) == IF a.category = "" THEN "Uncategorized" ELSE a.category

\* B is the declared parent of A and both are records of the flat list.
ParentPairs ==
    {p \in (DOMAIN flat) \X (DOMAIN flat) : flat[p[1]].parentId = flat[p[2]].id}

\* A is a child of B in the root tree and occurs nowhere below an entry of B
\* in the bucket B is filed under.
NestedOnlyInRootTree(A, B) ==
    /\ A.id \in Range(articles.articleMap[B.id].children)
    /\ \A n \in NodesOf(categorizedArticles[BucketLabel(B)]) :
           n.id = B.id => A.id \notin DescendantIds(n)

\* C5 as stated: whenever the category fields of A and of its parent B differ,
\* A is not below B in B's bucket although it is B's child in the root tree.
C5_CategoryAsymmetry ==
    (RootBuilt /\ forestBuilt) =>
        \A p \in ParentPairs :
            flat[p[1]].category # flat[p[2]].category =>
                NestedOnlyInRootTree(flat[p[1]], flat[p[2]])

\* C5 amended: whenever A and its parent B are filed under different buckets
\* (category, or "Uncategorized" when absent or empty), A is not below B in
\* B's bucket although it is B's child in the root tree.
C5_BucketAsymmetry ==
    (RootBuilt /\ forestBuilt) =>
        \A p \in ParentPairs :
            BucketLabel(flat[p[1]]) # BucketLabel(flat[p[2]]) =>
                NestedOnlyInRootTree(flat[p[1]], flat[p[2]])

\* Both structures were built from a list in which a top-level entry of one
\* bucket is the parent of a record filed under another bucket.
C5_Witness ==
    /\ RootBuilt /\ forestBuilt
    /\ \E p \in ParentPairs :
         /\ BucketLabel(flat[p[1]]) # BucketLabel(flat[p[2]])
         /\ flat[p[2]].id \in TopLevelIds(categorizedArticles[BucketLabel(flat[p[2]])])

\* C6: a record whose declared parent exists in another bucket is a top-level
\* entry of its own bucket.
C6_CrossCategoryChildIsBucketRoot ==
    forestBuilt =>
        \A p \in ParentPairs :
            BucketLabel(flat[p[1]]) # BucketLabel(flat[p[2]]) =>
                flat[p[1]].id \in TopLevelIds(categorizedArticles[BucketLabel(flat[p[1]])])

C9_LevelsNewestFirst ==
    forestBuilt =>
        \A c \in DOMAIN categorizedArticles :
            \A level \in LevelsOf(categorizedArticles[c]) :
                \A i \in 1..(Len(level) - 1) :
                    level[i].createdAt >= level[i + 1].createdAt

\* A bucket with a children level of two entries created at different times.
C9_Witness ==
    /\ forestBuilt
    /\ \E c \in DOMAIN categorizedArticles :
         \E n \in NodesOf(categorizedArticles[c]) :
            /\ Len(n.children) = 2
            /\ n.children[1].createdAt > n.children[2].createdAt

\* C19: within each bucket the top level consists of exactly the bucket's
\* records whose parentId is null or absent (undefined).
C19_TopLevelIsNullOrAbsent ==
    forestBuilt =>
        \A c \in DOMAIN categorizedArticles :
            TopLevelIds(categorizedArticles[c]) =
                {categorized[c][i].id :
                    i \in {j \in DOMAIN categorized[c] : ~TruthyId(categorized[c][j].parentId)}}

\* The half of C19 that concerns null: the top level of a bucket consists of
\* exactly the bucket's records whose parentId is null.
C19_TopLevelIsNull ==
    forestBuilt =>
        \A c \in DOMAIN categorizedArticles :
            TopLevelIds(categorizedArticles[c]) =
                {categorized[c][i].id :
                    i \in {j \in DOMAIN categorized[c] : categorized[c][j].parentId = NULL}}

\* The id reached from the record after n steps along parentId, or NULL when
\* the chain has left the flat list before.
RECURSIVE ParentAfter(_, _)
ParentAfter(id, n) ==
    IF n = 0 THEN id
    ELSE LET p == ParentAfter(id, n - 1)
         IN  IF p = NULL THEN NULL
             ELSE LET a == flat[PosInFlat(p)]
                  IN  IF TruthyId(a.parentId) /\ a.parentId \in FlatIds
                      THEN a.parentId ELSE NULL

AncestorIds(id) == {ParentAfter(id, n) : n \in 1..Len(flat)} \ {NULL}

\* The record is on a parent cycle (it is its own ancestor) or below one.
OnOrBelowParentCycle(id) == \E x \in AncestorIds(id) \cup {id} : x \in AncestorIds(x)

\* How often the id occurs in a nested list, at every depth.
RECURSIVE NestedCount(_, _)
NestedCount(level, id) ==
    IF level = <<>> THEN 0
    ELSE (IF Head(level).id = id THEN 1 ELSE 0)
         + NestedCount(Head(level).children, id)
         + NestedCount(Tail(level), id)

\* The number of levels of a nested list.
RECURSIVE NestedDepth(_)
NestedDepth(level) ==
    IF level = <<>> THEN 0
    ELSE LET below == {NestedDepth(level[i].children) : i \in DOMAIN level}
         IN  1 + CHOOSE d \in below : \A e \in below : e <= d

\* C30: for every flat list with unique ids, self-parents and parent cycles
\* included, getCategorizedHierarchy returns a finite forest: a bucket is
\* nested no deeper than it has members, no record occurs in the forest more
\* than once, and the records on a parent cycle and below one are not in it.
C30_FiniteForestWithoutCycles ==
    forestBuilt =>
        /\ \A c \in DOMAIN categorizedArticles :
             NestedDepth(categorizedArticles[c]) <= Len(categorized[c])
        /\ \A id \in FlatIds :
             LET occurrences == [c \in DOMAIN categorizedArticles |->
                                    NestedCount(categorizedArticles[c], id)]
             IN  /\ \A c \in DOMAIN occurrences : occurrences[c] <= 1
                 /\ Cardinality({c \in DOMAIN occurrences : occurrences[c] = 1}) <= 1
                 /\ OnOrBelowParentCycle(id) =>
                        \A c \in DOMAIN occurrences : occurrences[c] = 0

\* Of three records of one category, one is its own parent, one is its
\* child, and one is nested properly.
C30_Witness ==
    /\ forestBuilt
    /\ Len(flat) = 3
    /\ Cardinality(DOMAIN categorizedArticles) = 1
    /\ \E i, j \in DOMAIN flat :
         /\ i # j
         /\ flat[i].parentId = flat[i].id
         /\ flat[j].parentId = flat[i].id
    /\ Cardinality(ForestIds(categorizedArticles)) = 1

\* ------------------------------------------------------------------------
\* Properties of the expansion state (SpecView)
\* ------------------------------------------------------------------------
\* Every key a node can have: article ids and category-<name> keys.
NodeIds ==
    {ArticleNodeId(id) : id \in Ids} \cup {categoryId(c) : c \in Categories \ {""}}

\* C11: for the expansion set of every reachable state and every key,
\* toggling the key twice gives the set back.
C11_ToggleTwiceRestores ==
    \A k \in NodeIds :
        newExpanded(newExpanded(expandedNodes, k), k) = expandedNodes

\* The set holds an article key and a category key, and some key is not in
\* it.
C11_Witness ==
    /\ \E k \in expandedNodes : k[1] = "article"
    /\ \E k \in expandedNodes : k[1] = "category"
    /\ NodeIds \ expandedNodes # {}

\* C12: after expandAll the id of every node of the root tree, at every
\* depth, is in expandedNodes.
C12_ExpandAllCoversTree ==
    lastOp = "expandAll" =>
        \A id \in TreeIds(articles) : ArticleNodeId(id) \in expandedNodes

\* expandAll ran on a tree with a root, a child and a grandchild.
C12_Witness ==
    /\ lastOp = "expandAll"
    /\ \E r \in Range(articles.rootArticles) :
         \E c \in Range(articles.articleMap[r].children) :
             articles.articleMap[c].children # <<>>

\* Ids of the entries of a nested list that have the given id below them.
RECURSIVE AncestorsIn(_, _)
AncestorsIn(level, id) ==
    UNION {IF id \in DescendantIds(level[i])
           THEN {level[i].id} \cup AncestorsIn(level[i].children, id)
           ELSE {}
           : i \in DOMAIN level}

\* C20: in the tree view an article of a bucket is shown iff the bucket's
\* category key and the ids of all its ancestors in the bucket are in
\* expandedNodes (so the articles of a category are shown iff its key is in
\* the set); in the table view the children of a shown row are shown iff the
\* row's id is in the set; with the initial, empty set the tree view shows
\* no article row and the table view shows the roots only.
C20_ShownIffExpanded ==
    /\ \A c \in DOMAIN categorizedArticles :
         LET shown == {r.id : r \in CategoryTreeNode(c, categorizedArticles[c], expandedNodes)}
         IN  /\ shown \subseteq NestedIds(categorizedArticles[c])
             /\ \A id \in NestedIds(categorizedArticles[c]) :
                    id \in shown <=>
                        /\ categoryId(c) \in expandedNodes
                        /\ \A a \in AncestorsIn(categorizedArticles[c], id) :
                               ArticleNodeId(a) \in expandedNodes
    /\ LET shown == {r.id : r \in HierarchicalTableView(articles, expandedNodes)}
       IN  /\ Range(articles.rootArticles) \subseteq shown
           /\ \A id \in shown :
                  \A child \in Range(articles.articleMap[id].children) :
                      child \in shown <=> ArticleNodeId(id) \in expandedNodes
    /\ expandedNodes = {} =>
           /\ TreeViewRows = {}
           /\ {r.id : r \in HierarchicalTableView(articles, expandedNodes)}
                  = Range(articles.rootArticles)

\* The tree view shows an article two levels below the top of its bucket.
C20_Witness ==
    /\ viewMode = "tree"
    /\ \E c \in DOMAIN categorizedArticles :
         \E id \in {r.id : r \in TreeViewRows} :
             Cardinality(AncestorsIn(categorizedArticles[c], id)) = 2

\* C26: after expandAll, expandedNodes is exactly the set of the ids of the
\* nodes reachable from the root list of the root tree: the category keys
\* and every other key that was in the set before are gone.
C26_ExpandAllReplaces ==
    lastOp = "expandAll" =>
        /\ expandedNodes = {ArticleNodeId(id) : id \in TreeIds(articles)}
        /\ \A c \in DOMAIN categorizedArticles : categoryId(c) \notin expandedNodes

\* expandAll ran in the tree view: every article key is in the set, every
\* category header is collapsed and no article row is rendered.
C26_Witness ==
    /\ lastOp = "expandAll"
    /\ viewMode = "tree"
    /\ DOMAIN categorizedArticles # {}
    /\ expandedNodes # {}
    /\ TreeViewRows = {}

\* ------------------------------------------------------------------------
\* Properties of TableView (SpecTable)
\* ------------------------------------------------------------------------
\* The two characters are the same letter, in whatever case.
SameLetter(c, d) ==
    \/ c = d
    \/ {c, d} \in {{"a", "A"}, {"b", "B"}}

\* Some stretch of the text spells the query, case aside.
ContainsIgnoringCase(text, query) ==
    \E from \in 0..Len(text) :
        /\ from + Len(query) <= Len(text)
        /\ \A i \in 1..Len(query) : SameLetter(text[from + i], query[i])

\* Position of the record in the root list.
PosInRoots(a) == CHOOSE i \in DOMAIN RootRecords : RootRecords[i] = a

\* C14: a record of the root list is in filteredArticles iff its title or
\* content contains the search query as a case-insensitive substring, and
\* selectedCategory is "all" or its category, and statusFilter is "all" or
\* its status; filteredArticles holds root records only, each once, in
\* root-list order.
C14_FilterMatches ==
    /\ \A i \in DOMAIN RootRecords :
         LET a == RootRecords[i]
         IN  a \in Range(filteredArticles) <=>
                 /\ \/ ContainsIgnoringCase(a.title, searchQuery)
                    \/ ContainsIgnoringCase(a.content, searchQuery)
                 /\ selectedCategory = "all" \/ selectedCategory = a.category
                 /\ statusFilter = "all" \/ statusFilter = a.status
    /\ Range(filteredArticles) \subseteq Range(RootRecords)
    /\ \A i, j \in DOMAIN filteredArticles :
         i < j => PosInRoots(filteredArticles[i]) < PosInRoots(filteredArticles[j])

\* A query in mixed case, a category and a status are set; one of two root
\* records matches and the other does not.
C14_Witness ==
    /\ searchQuery = <<"a", "B">>
    /\ selectedCategory # "all"
    /\ statusFilter # "all"
    /\ Len(RootRecords) = 2
    /\ Len(filteredArticles) = 1

\* C15: totalPages is the least number of pages of itemsPerPage records that
\* hold all matching records, for every match count and page size; with no
\* matching record it is 0 and the rendered page is empty.
C15_TotalPagesIsCeiling ==
    /\ totalPages \in Nat
    /\ totalPages * itemsPerPage >= Len(filteredArticles)
    /\ (totalPages - 1) * itemsPerPage < Len(filteredArticles)
    /\ Len(filteredArticles) = 0 => (totalPages = 0 /\ paginatedArticles = <<>>)

\* A page size other than the initial one is selected and the matching
\* records do not fill the last of several pages.
C15_Witness ==
    /\ itemsPerPage # 10
    /\ totalPages > 1
    /\ Len(filteredArticles) % itemsPerPage # 0
    /\ statusFilter # "all"

\* C16: currentPage is within 1..max(1, totalPages), and the rendered page
\* is not empty while there are matching records.
C16_CurrentPageInBounds ==
    /\ currentPage \in 1..(IF totalPages > 1 THEN totalPages ELSE 1)
    /\ filteredArticles # <<>> => paginatedArticles # <<>>

\* The ids of the records nested below another record of the root tree.
NestedChildIds ==
    UNION {Range(articles.articleMap[id].children) : id \in DOMAIN articles.articleMap}
        \ Range(articles.rootArticles)

\* C24: filteredArticles and the rendered page hold records of the root
\* list only: no nested child is in either, whether it matches the filters
\* or not, and the match count is the number of matching roots.
C24_RootsOnly ==
    /\ \A i \in DOMAIN filteredArticles :
         /\ filteredArticles[i].id \in Range(articles.rootArticles)
         /\ filteredArticles[i].id \notin NestedChildIds
    /\ Range(paginatedArticles) \subseteq Range(filteredArticles)
    /\ Len(filteredArticles) =
           Cardinality({i \in DOMAIN articles.rootArticles :
                           matchesFilter(articles.articleMap[articles.rootArticles[i]])})

\* A nested child matches a search query, a category and a status that are
\* set, and its parent matches too.
C24_Witness ==
    /\ searchQuery # <<>>
    /\ selectedCategory # "all"
    /\ statusFilter # "all"
    /\ filteredArticles # <<>>
    /\ \E id \in NestedChildIds : matchesFilter(articles.articleMap[id])

\* The filtered records of the pages 1..p, one page after the other.
RECURSIVE PagesUpTo(_)
PagesUpTo(p) ==
    IF p = 0 THEN <<>>
    ELSE PagesUpTo(p - 1)
         \o slice(filteredArticles, (p - 1) * itemsPerPage, p * itemsPerPage)

\* C29: with several pages and currentPage within 1..totalPages, the first,
\* previous, next and last controls each lead to a page within
\* 1..totalPages, previous at page 1 and next at the last page lead nowhere
\* else, and the pages 1..totalPages together are the filtered records,
\* each once.
C29_NavigationClamped ==
    (totalPages > 1 /\ currentPage \in 1..totalPages) =>
        /\ {1, toPreviousPage(currentPage), toNextPage(currentPage, totalPages), totalPages}
               \subseteq 1..totalPages
        /\ toPreviousPage(1) = 1
        /\ toNextPage(totalPages, totalPages) = totalPages
        /\ PagesUpTo(totalPages) = filteredArticles

\* The last of three pages is shown and it is not full.
C29_Witness ==
    /\ totalPages = 3
    /\ currentPage = 3
    /\ Len(filteredArticles) % itemsPerPage # 0

\* ------------------------------------------------------------------------
\* Properties of the articles table (SpecStore)
\* ------------------------------------------------------------------------
\* C25: every row of the table has publishedAt set iff its status is
\* published, after any sequence of editor creates, editor updates, status
\* updates and deletes.
C25_PublishedAtIffPublished ==
    \A id \in DOMAIN db : (db[id].publishedAt # NULL) <=> (db[id].status = "published")

\* The table holds a published article and a draft nested below it that
\* was created later.
C25_Witness ==
    \E p, d \in DOMAIN db :
        /\ db[p].status = "published"
        /\ db[d].status = "draft"
        /\ db[d].parentId = p
        /\ db[d].createdAt > db[p].createdAt

\* ------------------------------------------------------------------------
\* Properties of ArticleList (Spec)
\* ------------------------------------------------------------------------
\* C7: once a delete has succeeded and both refetches have completed, every
\* remaining article that had the deleted article as parent or ancestor is
\* present in the rebuilt root tree and in the rebuilt categorized forest.
C7_DescendantsSurviveDelete ==
    (refetched /\ handlers = <<>>) =>
        \A id \in orphaned \cap DOMAIN db :
            id \in TreeIds(articles) /\ id \in ForestIds(categorizedArticles)

\* The half of C7 that concerns the root tree (table view).
C7_DescendantsStayInRootTree ==
    (refetched /\ handlers = <<>>) =>
        \A id \in orphaned \cap DOMAIN db : id \in TreeIds(articles)

\* C13: expandedNodes is empty initially and after every collapseAll, and no
\* step of a fetch or rebuild (a step that changes the handlers in flight or
\* a derived structure) changes it.
C13_EmptyUntilExpanded ==
    /\ expandedNodes = {}
    /\ [][/\ lastOp' = "collapseAll" => expandedNodes' = {}
          /\ (handlers' # handlers \/ derivedVars' # derivedVars) =>
                 expandedNodes' = expandedNodes]_vars

\* A fetched list is about to be rebuilt while expandedNodes holds keys.
C13_Witness ==
    /\ expandedNodes # {}
    /\ \E i \in DOMAIN handlers :
         handlers[i].state = "ok" /\ handlers[i].pc \in {"articles", "forest"}

\* The step resumes the i-th handler behind its await: the handler moves on
\* or ends, and every other handler stays where it is.
Resumes(i) ==
    /\ handlers[i].state \in {"ok", "failed"}
    /\ \/ handlers' = RemoveAt(handlers, i)
       \/ /\ Len(handlers') = Len(handlers)
          /\ handlers'[i] # handlers[i]
          /\ \A j \in DOMAIN handlers : j # i => handlers'[j] = handlers[j]

\* The i-th handler has issued the select of the given fetch.
Issued(i, pc) ==
    /\ Len(handlers') = Len(handlers)
    /\ handlers'[i].op = handlers[i].op
    /\ handlers'[i].pc = pc
    /\ handlers'[i].state = "sent"

\* C17: when a delete or status-change request has succeeded, the handler
\* issues the fetch of the root tree, whatever the view mode; when that fetch
\* has come back it replaces articles by the tree built from the fetched rows
\* and issues the fetch of the categorized forest, which replaces
\* categorizedArticles by the forest built from its rows; when the mutation
\* request has failed the handler ends without issuing a fetch, and in
\* neither case does the step of the mutation change a derived structure.
C17_MutationThenBothRefetches ==
    [][\A i \in DOMAIN handlers :
          LET h == handlers[i]
          IN  (h.op \in {"deleteArticle", "handleStatusChange"} /\ Resumes(i)) =>
                /\ (h.pc \in {"delete", "status"} /\ h.state = "ok") =>
                       Issued(i, "articles") /\ derivedVars' = derivedVars
                /\ (h.pc \in {"delete", "status"} /\ h.state = "failed") =>
                       handlers' = RemoveAt(handlers, i) /\ derivedVars' = derivedVars
                /\ h.pc = "articles" =>
                       /\ Issued(i, "forest")
                       /\ h.state = "ok" =>
                              /\ articles' = BuildRootTree(h.rows)
                              /\ categories' = UniqueCategories(h.rows)
                /\ (h.pc = "forest" /\ h.state = "ok") =>
                       categorizedArticles' = getCategorizedHierarchy(h.rows)]_vars

\* In the table view the forest fetched after a delete is about to replace
\* categorizedArticles, the root tree having been rebuilt before.
C17_Witness ==
    /\ viewMode = "table"
    /\ \E i \in DOMAIN handlers :
         /\ handlers[i].op = "deleteArticle"
         /\ handlers[i].pc = "forest"
         /\ handlers[i].state = "ok"
         /\ handlers[i].treeOk
         /\ handlers[i].rows # <<>>

\* C18: the step that handles a failed request (fetch of the root tree,
\* fetch of the categorized forest, delete or status change) leaves error
\* non-null and leaves articles, categories, categorizedArticles and
\* expandedNodes as they were.
C18_FailureLeavesState ==
    [][\A i \in DOMAIN handlers :
          (handlers[i].state = "failed" /\ Resumes(i)) =>
              /\ error' # NoError
              /\ derivedVars' = derivedVars
              /\ expandedNodes' = expandedNodes]_vars

\* A request has failed while the page holds articles and expanded keys.
C18_Witness ==
    /\ \E i \in DOMAIN handlers : handlers[i].state = "failed"
    /\ articles.rootArticles # <<>>
    /\ DOMAIN categorizedArticles # {}
    /\ expandedNodes # {}

\* C27: a step that changes expandedNodes, collapseAll aside, changes the
\* membership of one key and leaves every other key, articles, categories,
\* categorizedArticles, the filters, the page and the rest of the page state
\* as they were; and no step of a fetch, a rebuild or a view-mode switch
\* changes expandedNodes, so the key of a deleted article stays in the set.
C27_ToggleChangesOneKey ==
    [][/\ (expandedNodes' # expandedNodes /\ lastOp' # "collapseAll") =>
             /\ \E k \in expandedNodes \cup expandedNodes' :
                    (expandedNodes' \ expandedNodes) \cup (expandedNodes \ expandedNodes') = {k}
             /\ derivedVars' = derivedVars
             /\ tableVars' = tableVars
             /\ uiVars' = uiVars
       /\ (handlers' # handlers \/ derivedVars' # derivedVars \/ viewMode' # viewMode) =>
             expandedNodes' = expandedNodes]_vars

\* An article was expanded and then deleted: both refetches have completed,
\* the article is in neither the table nor the root tree, and its key is
\* still in expandedNodes next to another key.
C27_Witness ==
    /\ handlers = <<>>
    /\ refetched
    /\ Cardinality(expandedNodes) > 1
    /\ \E k \in expandedNodes :
         /\ k[1] = "article"
         /\ k[2] \notin DOMAIN db
         /\ k[2] \notin DOMAIN articles.articleMap

\* C22: after "Try again" the fetch that failed has been issued again and
\* has replaced its structure, so that with error = null and no handler
\* mid-sequence the categorized forest of the tree view is not older than
\* the failed fetch: it shows no article that was deleted before.
C22_RetryRefreshesForest ==
    (error = NoError /\ handlers = <<>> /\ viewMode = "tree") =>
        ForestIds(categorizedArticles) \subseteq DOMAIN db

\* ------------------------------------------------------------------------
\* Properties of overlapping handlers (SpecRace)
\* ------------------------------------------------------------------------
\* C21: while other handlers are mid-sequence too, every fetch response that
\* arrives replaces its structure by what is built from its rows, whenever
\* its fetch was issued: articles and categorizedArticles are what the
\* response that arrived last gave.
C21_LastArrivalWins ==
    [][\A i \in DOMAIN handlers :
          Resumes(i) =>
              /\ (handlers[i].pc = "articles" /\ handlers[i].state = "ok") =>
                     articles' = BuildRootTree(handlers[i].rows)
              /\ (handlers[i].pc = "forest" /\ handlers[i].state = "ok") =>
                     categorizedArticles' = getCategorizedHierarchy(handlers[i].rows)
              /\ handlers[i].pc \notin {"articles", "forest"} =>
                     derivedVars' = derivedVars]_vars

\* Every request has completed without an error, and the root tree holds an
\* article that is no longer in the table: the response of a fetch that was
\* answered before a later delete has arrived last.
C21_Witness ==
    /\ handlers = <<>>
    /\ ~loading
    /\ error = NoError
    /\ \E id \in DOMAIN articles.articleMap : id \notin DOMAIN db

\* ------------------------------------------------------------------------
\* Properties of ArticleList when every request returns (SpecLive)
\* ------------------------------------------------------------------------
\* C28: loading is false whenever no handler is mid-sequence, and whenever
\* loading is true it becomes false later.
C28_LoadingEnds ==
    /\ [](handlers = <<>> => ~loading)
    /\ loading ~> ~loading

\* The spinner is on while the forest fetch of a status change, the last
\* request of the handler, has failed.
C28_Witness ==
    /\ loading
    /\ \E i \in DOMAIN handlers :
         /\ handlers[i].op = "handleStatusChange"
         /\ handlers[i].pc = "forest"
         /\ handlers[i].state = "failed"

====
